---- MODULE Spec2Model ----
(***************************************************************************)
(* LegalDiscoveryFhe: the confidential batch ledger and its asynchronous   *)
(* decryption-oracle protocol (contracts/Legal_Discovery_Fhe.sol).         *)
(*                                                                         *)
(* Every external call of the contract is one atomic step.  A call that    *)
(* reverts leaves the contract storage unchanged; the step still records   *)
(* in lastCall which call was made and with which error it ended, and in   *)
(* lastEvents the events the call emitted (none for a reverted call).      *)
(*                                                                         *)
(* Ciphertext handles are naturals: 0 is the uninitialized handle          *)
(* (bytes32(0)), and the handle of a ciphertext whose plaintext is v is    *)
(* v + 1.  The digest keccak256(abi.encode(cts, address(this))) is the     *)
(* pair <<cts, ThisAddress>>: equal digests iff equal inputs.              *)
(***************************************************************************)
EXTENDS Integers, Sequences, FiniteSets, TLC

\* ---- bounds of the model -------------------------------------------------
MaxBatches == 2
MaxDocs == 2
MaxRequests == 2
StartTime == 30
\* number of calls (and clock ticks) in a run
MaxSteps == 5
MaxTime == 31
\* largest value of the (scaled down) uint256 type
UintMax == 63
\* number of uploads the front end starts in a run
MaxUploads == 2

\* ---- program constants ---------------------------------------------------
DefaultCooldown == 30

Addresses == {"deployer", "alice"}
ZeroAddress == "zero"
ThisAddress == "contract"
Deployer == "deployer"

\* plaintexts of document contents and of search keywords
Contents == {5, 7}
Keywords == {5, 9}
CooldownInputs == {0, 1, UintMax}

BatchIds == 1..MaxBatches
RequestIds == 0..MaxRequests
Malformed == -1

VARIABLES owner, isProvider, paused, cooldownSeconds, lastSubmissionTime,
          lastDecryptionRequestTime, currentBatchId, batches, batchDocuments,
          decryptionContexts, now, oracleRequests, requestCounter,
          lastCall, lastEvents, steps,
          store, pc, docId, docData, keys, list, documents, status, clock

\* the storage of the contract
cvars == <<owner, isProvider, paused, cooldownSeconds, lastSubmissionTime,
           lastDecryptionRequestTime, currentBatchId, batches, batchDocuments,
           decryptionContexts>>
\* the decryption oracle (external): the requests it has accepted
ovars == <<oracleRequests, requestCounter>>
vars == <<owner, isProvider, paused, cooldownSeconds, lastSubmissionTime,
          lastDecryptionRequestTime, currentBatchId, batches, batchDocuments,
          decryptionContexts, now, oracleRequests, requestCounter,
          lastCall, lastEvents, steps,
          store, pc, docId, docData, keys, list, documents, status, clock>>
\* the web front end (frontend/web/src/app.tsx): the key-value store behind
\* contract.setData / contract.getData, and for each browser session its place
\* in uploadDocument / loadDocuments, its locals and its React state
fvars == <<store, pc, docId, docData, keys, list, documents, status, clock>>
\* everything but the front end
bvars == <<cvars, ovars, now, lastCall, lastEvents, steps>>

\* ---- the FHE capability --------------------------------------------------
UninitHandle == 0
asEuint32(v) == v + 1
Plain(h) == h - 1
isInitialized(h) == h # UninitHandle
\* ebool handle of the comparison of two ciphertexts
FHEeq(a, b) == asEuint32(IF Plain(a) = Plain(b) THEN 1 ELSE 0)
\* faulty variant: the branch is taken on the handle being set, not on the
\* boolean it encrypts, so every document counts as a match
matchAsUint_OnHandle(isMatch) == IF isInitialized(isMatch) THEN asEuint32(1) ELSE asEuint32(0)
\* isMatch ? FHE.asEuint32(1) : FHE.asEuint32(0): the selection on the
\* encrypted boolean that the expression stands for (1 for a match, else 0)
matchAsUint(isMatch) == IF Plain(isMatch) = 1 THEN asEuint32(1) ELSE asEuint32(0)
FHEadd(a, b) == asEuint32(Plain(a) + Plain(b))

\* ---- digests -------------------------------------------------------------
ZeroHash == <<>>
\* faulty variant: the digest leaves out the contract's own address
_hashCiphertexts_NoAddress(cts) == <<cts, ZeroAddress>>

_hashCiphertexts(cts) == <<cts, ThisAddress>>
\* new bytes32[](1): one zero word
EmptyCts == <<0>>

\* ---- default (zero) values of storage slots ------------------------------
NoBatch == [id |-> 0, open |-> FALSE]
NoContext == [batchId |-> 0, stateHash |-> ZeroHash, processed |-> FALSE]
NoRequest == [cts |-> <<>>, matches |-> 0]

Event(name, args) == [name |-> name, args |-> args]
Call(op, caller, args, err) == [op |-> op, caller |-> caller, args |-> args, err |-> err]

\* checked uint256 addition: TRUE when a + b does not fit
Overflows(a, b) == a + b > UintMax

\* faulty variant: the record is written without its id
_openBatch_NoId(b, batchId) == [b EXCEPT ![batchId] = [id |-> 0, open |-> TRUE]]

\* faulty variant: opening a batch closes the one before it
_openBatch_ClosesPrevious(b, batchId) ==
    [i \in DOMAIN b |-> IF i = batchId THEN [id |-> batchId, open |-> TRUE]
                        ELSE IF i = batchId - 1 THEN [b[i] EXCEPT !.open = FALSE]
                        ELSE b[i]]

\* faulty variant: opening a batch re-opens every batch before it
_openBatch_ReopensEarlier(b, batchId) ==
    [i \in DOMAIN b |-> IF i <= batchId THEN [id |-> i, open |-> TRUE] ELSE b[i]]

_openBatch(b, batchId) == [b EXCEPT ![batchId] = [id |-> batchId, open |-> TRUE]]

\* ---- web front end: sessions, store keys, bytes ---------------------------
Sessions == {"tab1", "tab2"}
DocIds == 1..MaxUploads
\* the keys of the store: "document_keys" and `document_${docId}`
KeysKey == <<"document_keys">>
DocKey(id) == <<"document", id>>
StoreKeys == {KeysKey} \cup {DocKey(id) : id \in DocIds}
\* getData of a key never set: zero bytes
EmptyBytes == <<>>

FrontInit ==
    /\ store = [k \in StoreKeys |-> EmptyBytes]
    /\ pc = [s \in Sessions |-> "idle"]
    /\ docId = [s \in Sessions |-> 0]
    /\ docData = [s \in Sessions |-> <<>>]
    /\ keys = [s \in Sessions |-> <<>>]
    /\ list = [s \in Sessions |-> <<>>]
    /\ documents = [s \in Sessions |-> <<>>]
    /\ status = [s \in Sessions |-> "hidden"]
    /\ clock = 0

Init ==
    /\ FrontInit
    /\ owner = Deployer
    /\ isProvider = [a \in Addresses |-> a = Deployer]
    /\ paused = FALSE
    /\ cooldownSeconds = DefaultCooldown
    /\ lastSubmissionTime = [a \in Addresses |-> 0]
    /\ lastDecryptionRequestTime = [a \in Addresses |-> 0]
    /\ currentBatchId = 1
    /\ batches = _openBatch([i \in BatchIds |-> NoBatch], 1)
    /\ batchDocuments = [i \in BatchIds |-> <<>>]
    /\ decryptionContexts = [r \in RequestIds |-> NoContext]
    /\ now = StartTime
    /\ oracleRequests = [r \in RequestIds |-> NoRequest]
    /\ requestCounter = 0
    /\ lastCall = Call("constructor", Deployer, <<>>, "ok")
    /\ lastEvents = <<Event("ProviderAdded", <<Deployer>>), Event("BatchOpened", <<1>>)>>
    /\ steps = 0

\* one more step of the run
Step == steps < MaxSteps /\ steps' = steps + 1 /\ UNCHANGED fvars

\* a call that reverted: storage and oracle unchanged, nothing emitted.  Of a
\* reverted call lastCall keeps the name, the caller and the error; only
\* myCallback also keeps which request it was for
Reverted(op, caller, args, err) ==
    /\ Step
    /\ lastCall' = Call(op, caller, args, err)
    /\ lastEvents' = <<>>
    /\ UNCHANGED <<cvars, ovars, now>>

\* a call that returned: the caller states the storage it changes
Returned(op, caller, args, events) ==
    /\ Step
    /\ lastCall' = Call(op, caller, args, "ok")
    /\ lastEvents' = events
    /\ UNCHANGED now

\* ---- AccessControl -------------------------------------------------------
\* faulty variant: the deployer keeps the owner's rights after a transfer
onlyOwner_DeployerToo(caller) == caller = owner \/ caller = Deployer
onlyOwner(caller) == caller = owner

\* faulty variant: transferOwnership without the check for the zero address
transferOwnershipErr_AcceptsZero(caller, newOwner) ==
    IF ~onlyOwner(caller) THEN "NotOwner" ELSE "ok"

transferOwnershipErr(caller, newOwner) ==
    IF ~onlyOwner(caller) THEN "NotOwner"
    ELSE IF newOwner = ZeroAddress THEN "New owner is zero address"
    ELSE "ok"

\* faulty variant: the provider role travels with the ownership
transferOwnership_MovesProviderRole(caller, newOwner) ==
    LET err == transferOwnershipErr(caller, newOwner) IN
    IF err # "ok" THEN Reverted("transferOwnership", caller, <<>>, err)
    ELSE /\ owner' = newOwner
         /\ isProvider' = [a \in DOMAIN isProvider |->
                              IF a = newOwner THEN TRUE
                              ELSE IF a = owner THEN FALSE ELSE isProvider[a]]
         /\ Returned("transferOwnership", caller, <<newOwner>>,
                     <<Event("OwnershipTransferred", <<owner, newOwner>>)>>)
         /\ UNCHANGED <<paused, cooldownSeconds, lastSubmissionTime,
                        lastDecryptionRequestTime, currentBatchId, batches,
                        batchDocuments, decryptionContexts, ovars>>

transferOwnership(caller, newOwner) ==
    LET err == transferOwnershipErr(caller, newOwner) IN
    IF err # "ok" THEN Reverted("transferOwnership", caller, <<>>, err)
    ELSE /\ owner' = newOwner
         /\ Returned("transferOwnership", caller, <<newOwner>>,
                     <<Event("OwnershipTransferred", <<owner, newOwner>>)>>)
         /\ UNCHANGED <<isProvider, paused, cooldownSeconds, lastSubmissionTime,
                        lastDecryptionRequestTime, currentBatchId, batches,
                        batchDocuments, decryptionContexts, ovars>>

addProviderErr(caller, provider) == IF ~onlyOwner(caller) THEN "NotOwner" ELSE "ok"

\* faulty variant: ProviderAdded is emitted outside the if, on every success
addProvider_AlwaysEmits(caller, provider) ==
    LET err == addProviderErr(caller, provider) IN
    IF err # "ok" THEN Reverted("addProvider", caller, <<>>, err)
    ELSE /\ isProvider' = [isProvider EXCEPT ![provider] = TRUE]
         /\ Returned("addProvider", caller, <<provider>>,
                     <<Event("ProviderAdded", <<provider>>)>>)
         /\ UNCHANGED <<owner, paused, cooldownSeconds, lastSubmissionTime,
                        lastDecryptionRequestTime, currentBatchId, batches,
                        batchDocuments, decryptionContexts, ovars>>

addProvider(caller, provider) ==
    LET err == addProviderErr(caller, provider) IN
    IF err # "ok" THEN Reverted("addProvider", caller, <<>>, err)
    ELSE /\ isProvider' = [isProvider EXCEPT ![provider] = TRUE]
         /\ Returned("addProvider", caller, <<provider>>,
                     IF ~isProvider[provider]
                     THEN <<Event("ProviderAdded", <<provider>>)>> ELSE <<>>)
         /\ UNCHANGED <<owner, paused, cooldownSeconds, lastSubmissionTime,
                        lastDecryptionRequestTime, currentBatchId, batches,
                        batchDocuments, decryptionContexts, ovars>>

removeProviderErr(caller, provider) == IF ~onlyOwner(caller) THEN "NotOwner" ELSE "ok"

removeProvider(caller, provider) ==
    LET err == removeProviderErr(caller, provider) IN
    IF err # "ok" THEN Reverted("removeProvider", caller, <<>>, err)
    ELSE /\ isProvider' = [isProvider EXCEPT ![provider] = FALSE]
         /\ Returned("removeProvider", caller, <<provider>>,
                     IF isProvider[provider]
                     THEN <<Event("ProviderRemoved", <<provider>>)>> ELSE <<>>)
         /\ UNCHANGED <<owner, paused, cooldownSeconds, lastSubmissionTime,
                        lastDecryptionRequestTime, currentBatchId, batches,
                        batchDocuments, decryptionContexts, ovars>>

\* faulty variant: pause without the whenNotPaused modifier
pauseErr_NoPausedCheck(caller) == IF ~onlyOwner(caller) THEN "NotOwner" ELSE "ok"

pauseErr(caller) ==
    IF ~onlyOwner(caller) THEN "NotOwner"
    ELSE IF paused THEN "PausedContract"
    ELSE "ok"

pause(caller) ==
    LET err == pauseErr(caller) IN
    IF err # "ok" THEN Reverted("pause", caller, <<>>, err)
    ELSE /\ paused' = TRUE
         /\ Returned("pause", caller, <<>>, <<Event("Paused", <<caller>>)>>)
         /\ UNCHANGED <<owner, isProvider, cooldownSeconds, lastSubmissionTime,
                        lastDecryptionRequestTime, currentBatchId, batches,
                        batchDocuments, decryptionContexts, ovars>>

unpauseErr(caller) ==
    IF ~onlyOwner(caller) THEN "NotOwner"
    ELSE IF ~paused THEN "Contract not paused"
    ELSE "ok"

unpause(caller) ==
    LET err == unpauseErr(caller) IN
    IF err # "ok" THEN Reverted("unpause", caller, <<>>, err)
    ELSE /\ paused' = FALSE
         /\ Returned("unpause", caller, <<>>, <<Event("Unpaused", <<caller>>)>>)
         /\ UNCHANGED <<owner, isProvider, cooldownSeconds, lastSubmissionTime,
                        lastDecryptionRequestTime, currentBatchId, batches,
                        batchDocuments, decryptionContexts, ovars>>

\* faulty variant: setCooldownSeconds without the check that the value is positive
setCooldownSecondsErr_AcceptsZero(caller, newCooldownSeconds) ==
    IF ~onlyOwner(caller) THEN "NotOwner" ELSE "ok"

setCooldownSecondsErr(caller, newCooldownSeconds) ==
    IF ~onlyOwner(caller) THEN "NotOwner"
    ELSE IF ~(newCooldownSeconds > 0) THEN "Cooldown must be positive"
    ELSE "ok"

setCooldownSeconds(caller, newCooldownSeconds) ==
    LET err == setCooldownSecondsErr(caller, newCooldownSeconds) IN
    IF err # "ok" THEN Reverted("setCooldownSeconds", caller, <<>>, err)
    ELSE /\ cooldownSeconds' = newCooldownSeconds
         /\ Returned("setCooldownSeconds", caller, <<newCooldownSeconds>>,
                     <<Event("CooldownSecondsChanged", <<cooldownSeconds, newCooldownSeconds>>)>>)
         /\ UNCHANGED <<owner, isProvider, paused, lastSubmissionTime,
                        lastDecryptionRequestTime, currentBatchId, batches,
                        batchDocuments, decryptionContexts, ovars>>

\* ---- BatchLedger ---------------------------------------------------------
\* faulty variant: openNewBatch without the whenNotPaused modifier
openNewBatchErr_NoPauseCheck(caller) == IF ~onlyOwner(caller) THEN "NotOwner" ELSE "ok"

openNewBatchErr(caller) ==
    IF ~onlyOwner(caller) THEN "NotOwner"
    ELSE IF paused THEN "PausedContract"
    ELSE "ok"

\* faulty variant: the documents of the batch in progress move to the new batch
openNewBatch_CarriesDocuments(caller) ==
    LET err == openNewBatchErr(caller) IN
    IF err # "ok" THEN Reverted("openNewBatch", caller, <<>>, err)
    ELSE /\ currentBatchId < MaxBatches
         /\ currentBatchId' = currentBatchId + 1
         /\ batches' = _openBatch(batches, currentBatchId + 1)
         /\ batchDocuments' = [batchDocuments EXCEPT
                ![currentBatchId + 1] = batchDocuments[currentBatchId],
                ![currentBatchId] = <<>>]
         /\ Returned("openNewBatch", caller, <<>>,
                     <<Event("BatchOpened", <<currentBatchId + 1>>)>>)
         /\ UNCHANGED <<owner, isProvider, paused, cooldownSeconds, lastSubmissionTime,
                        lastDecryptionRequestTime, decryptionContexts, ovars>>

openNewBatch(caller) ==
    LET err == openNewBatchErr(caller) IN
    IF err # "ok" THEN Reverted("openNewBatch", caller, <<>>, err)
    ELSE /\ currentBatchId < MaxBatches
         /\ currentBatchId' = currentBatchId + 1
         /\ batches' = _openBatch(batches, currentBatchId + 1)
         /\ Returned("openNewBatch", caller, <<>>,
                     <<Event("BatchOpened", <<currentBatchId + 1>>)>>)
         /\ UNCHANGED <<owner, isProvider, paused, cooldownSeconds, lastSubmissionTime,
                        lastDecryptionRequestTime, batchDocuments,
                        decryptionContexts, ovars>>

\* faulty variant: closing a batch that is already closed is an error
closeCurrentBatchErr_RejectsClosed(caller) ==
    IF ~onlyOwner(caller) THEN "NotOwner"
    ELSE IF paused THEN "PausedContract"
    ELSE IF ~batches[currentBatchId].open THEN "BatchClosedOrInvalid"
    ELSE "ok"

closeCurrentBatchErr(caller) ==
    IF ~onlyOwner(caller) THEN "NotOwner"
    ELSE IF paused THEN "PausedContract"
    ELSE "ok"

\* faulty variant: closing closes every open batch, not the current one only
closeCurrentBatch_ClosesAll(caller) ==
    LET err == closeCurrentBatchErr(caller) IN
    IF err # "ok" THEN Reverted("closeCurrentBatch", caller, <<>>, err)
    ELSE /\ batches' = [b \in DOMAIN batches |->
                           IF batches[b].open THEN [batches[b] EXCEPT !.open = FALSE]
                           ELSE batches[b]]
         /\ Returned("closeCurrentBatch", caller, <<>>,
                     IF batches[currentBatchId].open
                     THEN <<Event("BatchClosed", <<currentBatchId>>)>> ELSE <<>>)
         /\ UNCHANGED <<owner, isProvider, paused, cooldownSeconds, lastSubmissionTime,
                        lastDecryptionRequestTime, currentBatchId, batchDocuments,
                        decryptionContexts, ovars>>

closeCurrentBatch(caller) ==
    LET err == closeCurrentBatchErr(caller) IN
    IF err # "ok" THEN Reverted("closeCurrentBatch", caller, <<>>, err)
    ELSE /\ batches' = IF batches[currentBatchId].open
                       THEN [batches EXCEPT ![currentBatchId].open = FALSE]
                       ELSE batches
         /\ Returned("closeCurrentBatch", caller, <<>>,
                     IF batches[currentBatchId].open
                     THEN <<Event("BatchClosed", <<currentBatchId>>)>> ELSE <<>>)
         /\ UNCHANGED <<owner, isProvider, paused, cooldownSeconds, lastSubmissionTime,
                        lastDecryptionRequestTime, currentBatchId, batchDocuments,
                        decryptionContexts, ovars>>

\* ---- RateLimiter ---------------------------------------------------------
\* the modifier's outcome: checked addition first, then the comparison
\* faulty variant: the window is measured with the cooldown of construction
checkSubmissionCooldown_InitialValue(caller) ==
    IF Overflows(lastSubmissionTime[caller], DefaultCooldown) THEN "Panic"
    ELSE IF now < lastSubmissionTime[caller] + DefaultCooldown THEN "CooldownActive"
    ELSE "ok"

checkSubmissionCooldown(caller) ==
    IF Overflows(lastSubmissionTime[caller], cooldownSeconds) THEN "Panic"
    ELSE IF now < lastSubmissionTime[caller] + cooldownSeconds THEN "CooldownActive"
    ELSE "ok"

checkDecryptionCooldown(caller) ==
    IF Overflows(lastDecryptionRequestTime[caller], cooldownSeconds) THEN "Panic"
    ELSE IF now < lastDecryptionRequestTime[caller] + cooldownSeconds THEN "CooldownActive"
    ELSE "ok"

\* faulty variant: the submission is not stamped
stampSubmission_None(caller) == lastSubmissionTime
\* lastSubmissionTime[msg.sender] = block.timestamp
stampSubmission(caller) == [lastSubmissionTime EXCEPT ![caller] = now]
\* faulty variant: one time of the last decryption request for all actors
stampDecryptionRequest_Global(caller) == [a \in DOMAIN lastDecryptionRequestTime |-> now]
\* lastDecryptionRequestTime[msg.sender] = block.timestamp
stampDecryptionRequest(caller) == [lastDecryptionRequestTime EXCEPT ![caller] = now]

\* faulty variant: whenNotPaused placed before onlyProvider
submitDocumentErr_PausedFirst(caller, encryptedId, encryptedContent) ==
    IF paused THEN "PausedContract"
    ELSE IF ~isProvider[caller] THEN "NotProvider"
    ELSE IF checkSubmissionCooldown(caller) # "ok" THEN checkSubmissionCooldown(caller)
    ELSE IF ~isInitialized(encryptedId) THEN "NotInitialized"
    ELSE IF ~isInitialized(encryptedContent) THEN "NotInitialized"
    ELSE IF ~batches[currentBatchId].open THEN "BatchClosedOrInvalid"
    ELSE "ok"

\* faulty variant: submitDocument without the check of the batch's open flag
submitDocumentErr_NoOpenCheck(caller, encryptedId, encryptedContent) ==
    IF ~isProvider[caller] THEN "NotProvider"
    ELSE IF paused THEN "PausedContract"
    ELSE IF checkSubmissionCooldown(caller) # "ok" THEN checkSubmissionCooldown(caller)
    ELSE IF ~isInitialized(encryptedId) THEN "NotInitialized"
    ELSE IF ~isInitialized(encryptedContent) THEN "NotInitialized"
    ELSE "ok"

\* faulty variant: submitDocument without the onlyProvider modifier
submitDocumentErr_NoProviderCheck(caller, encryptedId, encryptedContent) ==
    IF paused THEN "PausedContract"
    ELSE IF checkSubmissionCooldown(caller) # "ok" THEN checkSubmissionCooldown(caller)
    ELSE IF ~isInitialized(encryptedId) THEN "NotInitialized"
    ELSE IF ~isInitialized(encryptedContent) THEN "NotInitialized"
    ELSE IF ~batches[currentBatchId].open THEN "BatchClosedOrInvalid"
    ELSE "ok"

submitDocumentErr(caller, encryptedId, encryptedContent) ==
    IF ~isProvider[caller] THEN "NotProvider"
    ELSE IF paused THEN "PausedContract"
    ELSE IF checkSubmissionCooldown(caller) # "ok" THEN checkSubmissionCooldown(caller)
    ELSE IF ~isInitialized(encryptedId) THEN "NotInitialized"
    ELSE IF ~isInitialized(encryptedContent) THEN "NotInitialized"
    ELSE IF ~batches[currentBatchId].open THEN "BatchClosedOrInvalid"
    ELSE "ok"

\* faulty variant: the document goes to the oldest batch that is still open
submitDocument_IntoOldestOpen(caller, encryptedId, encryptedContent) ==
    LET err == submitDocumentErr(caller, encryptedId, encryptedContent)
        args == <<encryptedId, encryptedContent>>
        target == CHOOSE b \in 1..currentBatchId :
                      /\ batches[b].open
                      /\ \A a \in 1..(b - 1) : ~batches[a].open IN
    IF err # "ok" THEN Reverted("submitDocument", caller, <<>>, err)
    ELSE /\ Len(batchDocuments[target]) < MaxDocs
         /\ batchDocuments' = [batchDocuments EXCEPT ![target] =
                Append(@, [encryptedId |-> encryptedId,
                           encryptedContent |-> encryptedContent])]
         /\ lastSubmissionTime' = stampSubmission(caller)
         /\ Returned("submitDocument", caller, args,
                     <<Event("DocumentSubmitted", <<caller, target, encryptedId>>)>>)
         /\ UNCHANGED <<owner, isProvider, paused, cooldownSeconds,
                        lastDecryptionRequestTime, currentBatchId, batches,
                        decryptionContexts, ovars>>

\* faulty variant: the new document is put in front of the list
submitDocument_Prepends(caller, encryptedId, encryptedContent) ==
    LET err == submitDocumentErr(caller, encryptedId, encryptedContent)
        args == <<encryptedId, encryptedContent>> IN
    IF err # "ok" THEN Reverted("submitDocument", caller, <<>>, err)
    ELSE /\ Len(batchDocuments[currentBatchId]) < MaxDocs
         /\ batchDocuments' = [batchDocuments EXCEPT ![currentBatchId] =
                <<[encryptedId |-> encryptedId,
                   encryptedContent |-> encryptedContent]>> \o @]
         /\ lastSubmissionTime' = stampSubmission(caller)
         /\ Returned("submitDocument", caller, args,
                     <<Event("DocumentSubmitted", <<caller, currentBatchId, encryptedId>>)>>)
         /\ UNCHANGED <<owner, isProvider, paused, cooldownSeconds,
                        lastDecryptionRequestTime, currentBatchId, batches,
                        decryptionContexts, ovars>>

submitDocument(caller, encryptedId, encryptedContent) ==
    LET err == submitDocumentErr(caller, encryptedId, encryptedContent)
        args == <<encryptedId, encryptedContent>> IN
    IF err # "ok" THEN Reverted("submitDocument", caller, <<>>, err)
    ELSE /\ Len(batchDocuments[currentBatchId]) < MaxDocs
         /\ batchDocuments' = [batchDocuments EXCEPT ![currentBatchId] =
                Append(@, [encryptedId |-> encryptedId,
                           encryptedContent |-> encryptedContent])]
         /\ lastSubmissionTime' = stampSubmission(caller)
         /\ Returned("submitDocument", caller, args,
                     <<Event("DocumentSubmitted", <<caller, currentBatchId, encryptedId>>)>>)
         /\ UNCHANGED <<owner, isProvider, paused, cooldownSeconds,
                        lastDecryptionRequestTime, currentBatchId, batches,
                        decryptionContexts, ovars>>

\* ---- ConfidentialSearchEngine --------------------------------------------
\* encryptedCount after the first i iterations of the loop
RECURSIVE encryptedCountAfter(_, _, _)
encryptedCountAfter(docs, encryptedKeyword, i) ==
    IF i = 0 THEN asEuint32(0)
    ELSE FHEadd(encryptedCountAfter(docs, encryptedKeyword, i - 1),
                matchAsUint(FHEeq(docs[i].encryptedContent, encryptedKeyword)))

encryptedCount(docs, encryptedKeyword) == encryptedCountAfter(docs, encryptedKeyword, Len(docs))

\* the number of documents whose content equals the keyword
TrueMatches(docs, encryptedKeyword) ==
    Cardinality({i \in 1..Len(docs) : Plain(docs[i].encryptedContent) = Plain(encryptedKeyword)})

\* ---- DecryptionOracleBridge ----------------------------------------------
\* faulty variant: searchKeywordInBatch without the check for an empty batch
searchKeywordInBatchErr_NoEmptyCheck(caller, batchId, encryptedKeyword) ==
    IF ~isProvider[caller] THEN "NotProvider"
    ELSE IF paused THEN "PausedContract"
    ELSE IF checkDecryptionCooldown(caller) # "ok" THEN checkDecryptionCooldown(caller)
    ELSE IF ~isInitialized(encryptedKeyword) THEN "NotInitialized"
    ELSE IF batchId = 0 \/ batchId > currentBatchId THEN "InvalidBatchId"
    ELSE IF ~batches[batchId].open THEN "InvalidBatchId"
    ELSE "ok"

\* faulty variant: searchKeywordInBatch without the check of the open flag
searchKeywordInBatchErr_NoOpenCheck(caller, batchId, encryptedKeyword) ==
    IF ~isProvider[caller] THEN "NotProvider"
    ELSE IF paused THEN "PausedContract"
    ELSE IF checkDecryptionCooldown(caller) # "ok" THEN checkDecryptionCooldown(caller)
    ELSE IF ~isInitialized(encryptedKeyword) THEN "NotInitialized"
    ELSE IF batchId = 0 \/ batchId > currentBatchId THEN "InvalidBatchId"
    ELSE IF Len(batchDocuments[batchId]) = 0 THEN "No documents in batch"
    ELSE "ok"

searchKeywordInBatchErr(caller, batchId, encryptedKeyword) ==
    IF ~isProvider[caller] THEN "NotProvider"
    ELSE IF paused THEN "PausedContract"
    ELSE IF checkDecryptionCooldown(caller) # "ok" THEN checkDecryptionCooldown(caller)
    ELSE IF ~isInitialized(encryptedKeyword) THEN "NotInitialized"
    ELSE IF batchId = 0 \/ batchId > currentBatchId THEN "InvalidBatchId"
    ELSE IF ~batches[batchId].open THEN "InvalidBatchId"
    ELSE IF Len(batchDocuments[batchId]) = 0 THEN "No documents in batch"
    ELSE "ok"

searchKeywordInBatch(caller, batchId, encryptedKeyword) ==
    LET err == searchKeywordInBatchErr(caller, batchId, encryptedKeyword)
        args == <<batchId, encryptedKeyword>> IN
    IF err # "ok" THEN Reverted("searchKeywordInBatch", caller, <<>>, err)
    ELSE LET cts == <<encryptedCount(batchDocuments[batchId], encryptedKeyword)>>
             stateHash == _hashCiphertexts(cts)
             requestId == requestCounter
         IN /\ requestCounter < MaxRequests
            /\ requestCounter' = requestCounter + 1
            /\ oracleRequests' = [oracleRequests EXCEPT ![requestId] =
                   [cts |-> cts,
                    matches |-> TrueMatches(batchDocuments[batchId], encryptedKeyword)]]
            /\ decryptionContexts' = [decryptionContexts EXCEPT ![requestId] =
                   [batchId |-> batchId, stateHash |-> stateHash, processed |-> FALSE]]
            /\ lastDecryptionRequestTime' = stampDecryptionRequest(caller)
            /\ Returned("searchKeywordInBatch", caller, args,
                        <<Event("KeywordSearchRequested", <<requestId, batchId, encryptedKeyword>>)>>)
            /\ UNCHANGED <<owner, isProvider, paused, cooldownSeconds, lastSubmissionTime,
                           currentBatchId, batches, batchDocuments>>

\* requests the oracle has accepted
Issued(requestId) == requestId < requestCounter
\* what the oracle decrypts for a request, and its signature over it
Decrypted(requestId) == Plain(oracleRequests[requestId].cts[1])
OracleSignature(requestId) ==
    [signer |-> "kms", requestId |-> requestId, cleartexts |-> Decrypted(requestId)]
Forged == [signer |-> "forged", requestId |-> 0, cleartexts |-> 0]
Proofs == {OracleSignature(r) : r \in {q \in RequestIds : Issued(q)}} \cup {Forged}
Cleartexts == (0..MaxDocs) \cup {Malformed}

checkSignatures(requestId, cleartexts, proof) ==
    /\ proof.signer = "kms"
    /\ proof.requestId = requestId
    /\ proof.cleartexts = cleartexts

\* the oracle's own delivery: the request's id, its plaintext, its signature
Faithful(requestId, cleartexts, proof) ==
    /\ Issued(requestId)
    /\ cleartexts = Decrypted(requestId)
    /\ proof = OracleSignature(requestId)

\* faulty variant: myCallback without the state verification
myCallbackErr_NoStateCheck(requestId, cleartexts, proof) ==
    IF decryptionContexts[requestId].processed THEN "ReplayAttempt"
    ELSE IF ~checkSignatures(requestId, cleartexts, proof) THEN "InvalidProof"
    ELSE IF cleartexts = Malformed THEN "DecodeError"
    ELSE "ok"

myCallbackErr(requestId, cleartexts, proof) ==
    IF decryptionContexts[requestId].processed THEN "ReplayAttempt"
    ELSE IF decryptionContexts[requestId].stateHash # <<EmptyCts, ThisAddress>>
         THEN "StateMismatch"
    ELSE IF ~checkSignatures(requestId, cleartexts, proof) THEN "InvalidProof"
    ELSE IF cleartexts = Malformed THEN "DecodeError"
    ELSE "ok"

\* faulty variant: the processed flag is written before the checks and the
\* failure is reported without reverting
myCallback_FlagBeforeChecks(requestId, cleartexts, proof) ==
    /\ Step
    /\ decryptionContexts' = [decryptionContexts EXCEPT ![requestId].processed = TRUE]
    /\ lastCall' = Call("myCallback", "oracle",
                        <<requestId, Faithful(requestId, cleartexts, proof)>>,
                        myCallbackErr(requestId, cleartexts, proof))
    /\ lastEvents' = <<>>
    /\ UNCHANGED <<owner, isProvider, paused, cooldownSeconds, lastSubmissionTime,
                   lastDecryptionRequestTime, currentBatchId, batches,
                   batchDocuments, ovars, now>>

myCallback(requestId, cleartexts, proof) ==
    LET err == myCallbackErr(requestId, cleartexts, proof)
        args == <<requestId, Faithful(requestId, cleartexts, proof)>> IN
    IF err # "ok" THEN Reverted("myCallback", "oracle", args, err)
    ELSE /\ decryptionContexts' = [decryptionContexts EXCEPT ![requestId].processed = TRUE]
         /\ Returned("myCallback", "oracle", args,
                     <<Event("KeywordSearchCompleted",
                             <<requestId, decryptionContexts[requestId].batchId, cleartexts>>)>>)
         /\ UNCHANGED <<owner, isProvider, paused, cooldownSeconds, lastSubmissionTime,
                        lastDecryptionRequestTime, currentBatchId, batches,
                        batchDocuments, ovars>>

\* ---- time ----------------------------------------------------------------
\* a later block: block.timestamp grows
\* faulty variant: a timeout, the registered requests expire as time passes
Tick_ExpiresRequests ==
    /\ Step
    /\ now < MaxTime
    /\ now' = now + 1
    /\ decryptionContexts' =
           [r \in DOMAIN decryptionContexts |->
               IF Issued(r) THEN [decryptionContexts[r] EXCEPT !.processed = TRUE]
               ELSE decryptionContexts[r]]
    /\ lastCall' = Call("tick", "none", <<>>, "ok")
    /\ lastEvents' = <<>>
    /\ UNCHANGED <<owner, isProvider, paused, cooldownSeconds, lastSubmissionTime,
                   lastDecryptionRequestTime, currentBatchId, batches,
                   batchDocuments, ovars>>

Tick ==
    /\ Step
    /\ now < MaxTime
    /\ now' = now + 1
    /\ lastCall' = Call("tick", "none", <<>>, "ok")
    /\ lastEvents' = <<>>
    /\ UNCHANGED <<cvars, ovars>>

IdHandles == {UninitHandle, asEuint32(1)}
ContentHandles == {UninitHandle} \cup {asEuint32(c) : c \in Contents}
KeywordHandles == {UninitHandle} \cup {asEuint32(k) : k \in Keywords}

Next ==
    \/ \E c \in Addresses, n \in Addresses \cup {ZeroAddress} : transferOwnership(c, n)
    \/ \E c \in Addresses, p \in Addresses : addProvider(c, p)
    \/ \E c \in Addresses, p \in Addresses : removeProvider(c, p)
    \/ \E c \in Addresses : pause(c)
    \/ \E c \in Addresses : unpause(c)
    \/ \E c \in Addresses, n \in CooldownInputs : setCooldownSeconds(c, n)
    \/ \E c \in Addresses : openNewBatch(c)
    \/ \E c \in Addresses : closeCurrentBatch(c)
    \/ \E c \in Addresses, i \in IdHandles, d \in ContentHandles : submitDocument(c, i, d)
    \/ \E c \in Addresses, b \in 0..(MaxBatches + 1), k \in KeywordHandles :
          searchKeywordInBatch(c, b, k)
    \/ \E r \in RequestIds, ct \in Cleartexts, p \in Proofs : myCallback(r, ct, p)
    \/ Tick

Spec == Init /\ [][Next]_vars

\* ==========================================================================
\* The web front end: uploadDocument and loadDocuments
\* ==========================================================================
\* relevance scores a user enters
RelevanceScores == {10, 90}
\* FHEEncryptNumber: `FHE-${btoa(value.toString())}`
FHEEncryptNumber(value) == <<"FHE-", value>>
\* ethers.toUtf8Bytes(JSON.stringify(x)) of an array, and the way back
JSONstringify(ks) == <<"[">> \o ks \o <<"]">>
JSONparse(bytes) == SubSeq(bytes, 2, Len(bytes) - 1)
\* the same of a document record (an object)
JSONstringifyDoc(doc) == <<"{", doc, "}">>
JSONparseDoc(bytes) == bytes[2]

\* the store: the last value set under a key, zero bytes for a key never set
getData(key) == store[key]
setData(key, bytes) == [store EXCEPT ![key] = bytes]

\* keys = [] unless the bytes read are not empty, then the parsed array
parseKeys(keysBytes) == IF Len(keysBytes) > 0 THEN JSONparse(keysBytes) ELSE <<>>

\* list.sort((a, b) => b.timestamp - a.timestamp): stable, latest first
RECURSIVE sortByTimestamp(_)
InsertByTimestamp(d, sorted) ==
    LET before == {i \in 1..Len(sorted) : sorted[i].timestamp >= d.timestamp}
        n == Cardinality(before) IN
    SubSeq(sorted, 1, n) \o <<d>> \o SubSeq(sorted, n + 1, Len(sorted))
sortByTimestamp(l) ==
    IF l = <<>> THEN <<>>
    ELSE InsertByTimestamp(l[Len(l)], sortByTimestamp(SubSeq(l, 1, Len(l) - 1)))

\* a step of the front end leaves the contract and the oracle alone
FrontStep == UNCHANGED bvars

\* uploadDocument up to its first await: status pending, the record is built and
\* docId drawn from the clock (`${Date.now()}-${random}`: never drawn twice)
uploadDocument(s, relevanceScore) ==
    /\ pc[s] = "idle"
    /\ clock < MaxUploads
    /\ clock' = clock + 1
    /\ docId' = [docId EXCEPT ![s] = clock + 1]
    /\ status' = [status EXCEPT ![s] = "pending"]
    /\ docData' = [docData EXCEPT ![s] =
           [data |-> FHEEncryptNumber(relevanceScore), timestamp |-> clock + 1,
            owner |-> s, status |-> "pending"]]
    /\ pc' = [pc EXCEPT ![s] = "setDocument"]
    /\ FrontStep /\ UNCHANGED <<store, keys, list, documents>>

\* await contract.setData(`document_${docId}`, ...)
uploadSetDocument(s) ==
    /\ pc[s] = "setDocument"
    /\ store' = setData(DocKey(docId[s]), JSONstringifyDoc(docData[s]))
    /\ pc' = [pc EXCEPT ![s] = "getKeys"]
    /\ FrontStep /\ UNCHANGED <<docId, docData, keys, list, documents, status, clock>>

\* const keysBytes = await contract.getData("document_keys"); keys = parse
uploadGetKeys(s) ==
    /\ pc[s] = "getKeys"
    /\ keys' = [keys EXCEPT ![s] = parseKeys(getData(KeysKey))]
    /\ pc' = [pc EXCEPT ![s] = "setKeys"]
    /\ FrontStep /\ UNCHANGED <<store, docId, docData, list, documents, status, clock>>

\* keys.push(docId); await contract.setData("document_keys", ...); status success
uploadSetKeys(s) ==
    /\ pc[s] = "setKeys"
    /\ store' = setData(KeysKey, JSONstringify(Append(keys[s], docId[s])))
    /\ status' = [status EXCEPT ![s] = "success"]
    /\ pc' = [pc EXCEPT ![s] = "loadDocuments"]
    /\ FrontStep /\ UNCHANGED <<docId, docData, keys, list, documents, clock>>

\* an await of uploadDocument throws (the user rejects the transaction, the
\* node fails): the catch block reports the error
uploadFails(s) ==
    /\ pc[s] \in {"setDocument", "getKeys", "setKeys"}
    /\ status' = [status EXCEPT ![s] = "error"]
    /\ pc' = [pc EXCEPT ![s] = "idle"]
    /\ FrontStep /\ UNCHANGED <<store, docId, docData, keys, list, documents, clock>>

\* the refresh button (and the mount of the page): loadDocuments is called
refresh(s) ==
    /\ pc[s] = "idle"
    /\ pc' = [pc EXCEPT ![s] = "loadDocuments"]
    /\ FrontStep /\ UNCHANGED <<store, docId, docData, keys, list, documents, status, clock>>

\* loadDocuments: const keysBytes = await contract.getData("document_keys")
loadDocuments(s) ==
    /\ pc[s] = "loadDocuments"
    /\ keys' = [keys EXCEPT ![s] = parseKeys(getData(KeysKey))]
    /\ list' = [list EXCEPT ![s] = <<>>]
    /\ pc' = [pc EXCEPT ![s] = "getDocument"]
    /\ FrontStep /\ UNCHANGED <<store, docId, docData, documents, status, clock>>

\* one turn of the loop: await contract.getData(`document_${key}`); the record,
\* when there is one, is pushed to list
loadGetDocument(s) ==
    /\ pc[s] = "getDocument"
    /\ keys[s] # <<>>
    /\ LET key == Head(keys[s])
           docBytes == getData(DocKey(key)) IN
       list' = [list EXCEPT ![s] =
                   IF Len(docBytes) > 0
                   THEN Append(@, [id |-> key,
                                   encryptedData |-> JSONparseDoc(docBytes).data,
                                   timestamp |-> JSONparseDoc(docBytes).timestamp,
                                   owner |-> JSONparseDoc(docBytes).owner,
                                   status |-> JSONparseDoc(docBytes).status])
                   ELSE @]
    /\ keys' = [keys EXCEPT ![s] = Tail(@)]
    /\ FrontStep /\ UNCHANGED <<store, pc, docId, docData, documents, status, clock>>

\* after the loop: list.sort(...); setDocuments(list)
loadFinish(s) ==
    /\ pc[s] = "getDocument"
    /\ keys[s] = <<>>
    /\ documents' = [documents EXCEPT ![s] = sortByTimestamp(list[s])]
    /\ pc' = [pc EXCEPT ![s] = "idle"]
    /\ FrontStep /\ UNCHANGED <<store, docId, docData, keys, list, status, clock>>

\* the setTimeout that hides the status banner
hideStatus(s) ==
    /\ pc[s] = "idle"
    /\ status[s] \in {"success", "error"}
    /\ status' = [status EXCEPT ![s] = "hidden"]
    /\ FrontStep /\ UNCHANGED <<store, pc, docId, docData, keys, list, documents, clock>>

FrontNext ==
    \/ \E s \in Sessions, v \in RelevanceScores : uploadDocument(s, v)
    \/ \E s \in Sessions : uploadSetDocument(s)
    \/ \E s \in Sessions : uploadGetKeys(s)
    \/ \E s \in Sessions : uploadSetKeys(s)
    \/ \E s \in Sessions : uploadFails(s)
    \/ \E s \in Sessions : refresh(s)
    \/ \E s \in Sessions : loadDocuments(s)
    \/ \E s \in Sessions : loadGetDocument(s)
    \/ \E s \in Sessions : loadFinish(s)
    \/ \E s \in Sessions : hideStatus(s)

FrontSpec == Init /\ [][FrontNext]_vars

\* ==========================================================================
\* Properties
\* ==========================================================================
\* the step that led to the current state
IsCall(op) == lastCall.op = op
Failed == lastCall.err # "ok"
OwnerOps == {"transferOwnership", "addProvider", "removeProvider", "pause", "unpause",
             "setCooldownSeconds", "openNewBatch", "closeCurrentBatch"}

\* C1: after searchKeywordInBatch succeeded, the oracle's faithful callback (the
\* request's id, the true count as cleartext, the oracle's proof) succeeds: the
\* request is processed and KeywordSearchCompleted carries the number of
\* documents of the batch whose content equals the keyword.
C1_FaithfulCallbackFinalizes ==
    (IsCall("myCallback") /\ lastCall.args[2]) =>
        LET r == lastCall.args[1] IN
        /\ lastCall.err = "ok"
        /\ decryptionContexts[r].processed
        /\ lastEvents = <<Event("KeywordSearchCompleted",
                                <<r, decryptionContexts[r].batchId, oracleRequests[r].matches>>)>>

\* C2: myCallback's state verification fails (StateMismatch) exactly when the
\* stored stateHash differs from the digest of the ciphertexts the request was
\* bound to at request time (those handed to requestDecryption) and the
\* contract's address; a failed call leaves processed false.
C2_StateCheckBindsRequestCiphertexts ==
    IsCall("myCallback") =>
        LET r == lastCall.args[1] IN
        /\ (lastCall.err = "StateMismatch") <=>
               (decryptionContexts[r].stateHash # _hashCiphertexts(oracleRequests[r].cts))
        /\ (lastCall.err = "StateMismatch" => ~decryptionContexts[r].processed)

\* C3: a second delivery of the oracle's valid result for the same request fails
\* with ReplayAttempt, changes no state and emits nothing.
C3_SecondDeliveryIsReplay ==
    [][(/\ lastCall.op = "myCallback" /\ lastCall.args[2]
        /\ lastCall'.op = "myCallback" /\ lastCall'.args = lastCall.args)
       => (/\ lastCall'.err = "ReplayAttempt"
           /\ lastEvents' = <<>>
           /\ UNCHANGED <<cvars, ovars>>)]_vars

\* C5: a myCallback that fails leaves the processed flag and every other
\* variable of the contract unchanged and emits no notification.
C5_FailedCallbackIsAtomic ==
    [][(lastCall'.op = "myCallback" /\ lastCall'.err # "ok")
       => (UNCHANGED <<cvars, ovars>> /\ lastEvents' = <<>>)]_vars

\* a callback for a registered request was rejected by the state verification
C5_Witness ==
    /\ IsCall("myCallback") /\ lastCall.err = "StateMismatch"
    /\ Issued(lastCall.args[1])
    /\ ~decryptionContexts[lastCall.args[1]].processed

\* C6 (as stated): myCallback for a request id that was never registered fails
\* with a NotFound error of its own.
C6_UnknownRequestNotFound ==
    (IsCall("myCallback") /\ ~Issued(lastCall.args[1])) => lastCall.err = "NotFound"

\* C6 (amended): myCallback for a request id that was never registered fails
\* with StateMismatch, the error of the state verification, and changes no state.
C6_UnknownRequestStateMismatch ==
    [][(lastCall'.op = "myCallback" /\ ~Issued(lastCall'.args[1]))
       => (/\ lastCall'.err = "StateMismatch"
           /\ lastEvents' = <<>>
           /\ UNCHANGED <<cvars, ovars>>)]_vars

\* a callback named a request id the oracle never issued
C6_Witness ==
    /\ IsCall("myCallback") /\ ~Issued(lastCall.args[1])
    /\ decryptionContexts[lastCall.args[1]] = NoContext
    /\ Failed

\* C7: an owner-only operation called by anyone but the current owner is
\* rejected with NotOwner and leaves the whole state unchanged, also when the
\* caller is a former owner.
C7_OnlyCurrentOwner ==
    [][(lastCall'.op \in OwnerOps /\ lastCall'.caller # owner)
       => (lastCall'.err = "NotOwner" /\ lastEvents' = <<>> /\ UNCHANGED <<cvars, ovars>>)]_vars

\* the deployer, no longer the owner, was rejected
C7_Witness ==
    /\ lastCall.op \in OwnerOps /\ lastCall.caller = Deployer
    /\ owner # Deployer
    /\ lastCall.err = "NotOwner"

\* C8: submitDocument and searchKeywordInBatch called by an actor outside the
\* provider set are rejected: no document appended, no request registered, no
\* cooldown timestamp written.
C8_OnlyProviders ==
    [][(/\ lastCall'.op \in {"submitDocument", "searchKeywordInBatch"}
        /\ ~isProvider[lastCall'.caller])
       => (/\ lastCall'.err = "NotProvider"
           /\ UNCHANGED <<batchDocuments, decryptionContexts, lastSubmissionTime,
                          lastDecryptionRequestTime, ovars>>)]_vars

\* the deployer, removed from the provider set, was rejected
C8_Witness ==
    /\ lastCall.op \in {"submitDocument", "searchKeywordInBatch"}
    /\ lastCall.caller = Deployer /\ ~isProvider[Deployer]
    /\ lastCall.err = "NotProvider"

\* C9: a provider's submitDocument (the contract not paused) is rejected with
\* CooldownActive when now < lastSubmissionTime[caller] + cooldownSeconds and is
\* not stopped by the cooldown when now >= that sum; the same for
\* searchKeywordInBatch and lastDecryptionRequestTime.
C9_CooldownGate ==
    [][LET c == lastCall'.caller IN
       /\ (lastCall'.op = "submitDocument" /\ isProvider[c] /\ ~paused) =>
            IF now < lastSubmissionTime[c] + cooldownSeconds
            THEN lastCall'.err = "CooldownActive"
            ELSE lastCall'.err \notin {"CooldownActive", "Panic"}
       /\ (lastCall'.op = "searchKeywordInBatch" /\ isProvider[c] /\ ~paused) =>
            IF now < lastDecryptionRequestTime[c] + cooldownSeconds
            THEN lastCall'.err = "CooldownActive"
            ELSE lastCall'.err \notin {"CooldownActive", "Panic"}]_vars

\* C10: lastSubmissionTime[a] changes exactly in a successful submitDocument by
\* a, which sets it to the time of the call and appends the document;
\* lastDecryptionRequestTime[a] changes exactly in a successful
\* searchKeywordInBatch by a; a failed call leaves both maps unchanged.
C10_StampOnlyOnSuccess ==
    [][/\ \A a \in Addresses :
            /\ (lastSubmissionTime'[a] # lastSubmissionTime[a]) <=>
                   (lastCall'.op = "submitDocument" /\ lastCall'.caller = a
                    /\ lastCall'.err = "ok")
            /\ (lastDecryptionRequestTime'[a] # lastDecryptionRequestTime[a]) <=>
                   (lastCall'.op = "searchKeywordInBatch" /\ lastCall'.caller = a
                    /\ lastCall'.err = "ok")
       /\ (lastCall'.op = "submitDocument" /\ lastCall'.err = "ok") =>
            /\ lastSubmissionTime'[lastCall'.caller] = now
            /\ batchDocuments'[currentBatchId] =
                   Append(batchDocuments[currentBatchId],
                          [encryptedId |-> lastCall'.args[1],
                           encryptedContent |-> lastCall'.args[2]])
       /\ (lastCall'.op = "searchKeywordInBatch" /\ lastCall'.err = "ok") =>
            lastDecryptionRequestTime'[lastCall'.caller] = now
       /\ lastCall'.err # "ok" =>
            UNCHANGED <<lastSubmissionTime, lastDecryptionRequestTime>>]_vars

\* a second submission by the same provider moved its stamp
C10_Witness ==
    /\ IsCall("submitDocument") /\ ~Failed
    /\ lastSubmissionTime[lastCall.caller] = now
    /\ Len(batchDocuments[currentBatchId]) = 2

\* s is an initial part of t
IsPrefix(s, t) == Len(s) <= Len(t) /\ SubSeq(t, 1, Len(s)) = s
\* the errors of the gates submitDocument passes before it reads the open flag
BeforeOpenCheck == {"NotProvider", "PausedContract", "CooldownActive", "Panic", "NotInitialized"}

\* C11: while the current batch is closed every submitDocument fails and appends
\* nothing, with BatchClosedOrInvalid once the earlier gates are passed; while it
\* is open no call fails with that error, a successful call appends its document
\* at the end of the current batch's list, and every list keeps what it held.
C11_AppendOnlyWhileOpen ==
    [][/\ (lastCall'.op = "submitDocument" /\ ~batches[currentBatchId].open) =>
            /\ lastCall'.err # "ok"
            /\ lastCall'.err \notin BeforeOpenCheck => lastCall'.err = "BatchClosedOrInvalid"
            /\ UNCHANGED batchDocuments
       /\ (lastCall'.op = "submitDocument" /\ batches[currentBatchId].open) =>
            /\ lastCall'.err # "BatchClosedOrInvalid"
            /\ lastCall'.err = "ok" =>
                   batchDocuments'[currentBatchId] =
                       Append(batchDocuments[currentBatchId],
                              [encryptedId |-> lastCall'.args[1],
                               encryptedContent |-> lastCall'.args[2]])
       /\ \A c \in Addresses, i \in IdHandles, d \in ContentHandles :
            (/\ ~batches[currentBatchId].open /\ isProvider[c] /\ ~paused
             /\ checkSubmissionCooldown(c) = "ok" /\ isInitialized(i) /\ isInitialized(d))
            => submitDocumentErr(c, i, d) = "BatchClosedOrInvalid"
       /\ \A b \in BatchIds : IsPrefix(batchDocuments[b], batchDocuments'[b])]_vars

\* a submission was refused because the current batch, which still holds the
\* document appended before, is closed
C11_Witness ==
    /\ IsCall("submitDocument") /\ lastCall.err = "BatchClosedOrInvalid"
    /\ ~batches[currentBatchId].open
    /\ Len(batchDocuments[currentBatchId]) = 1

\* C12: searchKeywordInBatch on a batch without documents fails for every caller
\* and keyword; a search that fails registers no request, asks the oracle for
\* nothing, writes no timestamp and emits nothing, and a search that succeeds
\* was made on a batch that holds a document.
C12_EmptyBatchNotSearched ==
    [][/\ \A c \in Addresses, b \in BatchIds, k \in KeywordHandles :
            Len(batchDocuments[b]) = 0 => searchKeywordInBatchErr(c, b, k) # "ok"
       /\ (lastCall'.op = "searchKeywordInBatch" /\ lastCall'.err # "ok") =>
            /\ UNCHANGED <<decryptionContexts, oracleRequests, requestCounter,
                           lastDecryptionRequestTime>>
            /\ lastEvents' = <<>>
       /\ (lastCall'.op = "searchKeywordInBatch" /\ lastCall'.err = "ok") =>
            Len(batchDocuments[lastCall'.args[1]]) > 0]_vars

\* a search was refused because the batch holds no document
C12_Witness ==
    /\ IsCall("searchKeywordInBatch") /\ lastCall.err = "No documents in batch"
    /\ requestCounter = 0
    /\ decryptionContexts = [r \in RequestIds |-> NoContext]

\* the document lists a batch can hold
DocumentLists ==
    UNION {[1..n -> [encryptedId : IdHandles \ {UninitHandle},
                     encryptedContent : ContentHandles \ {UninitHandle}]] : n \in 0..MaxDocs}

GatedOps == {"submitDocument", "searchKeywordInBatch", "openNewBatch", "closeCurrentBatch"}
CooldownErrors == {"CooldownActive", "Panic"}
DomainErrors == {"NotInitialized", "BatchClosedOrInvalid", "InvalidBatchId", "No documents in batch"}

\* C14 (as stated): the not-paused guard comes first, so a gated entry point
\* called while the contract is paused reports the paused error whoever calls.
C14_PausedGuardFirst ==
    (lastCall.op \in GatedOps /\ paused) => lastCall.err = "PausedContract"

\* the error a provider-gated entry point reports: authorization, then pause,
\* then cooldown, then the domain checks
ProviderGateOrder(c, e, lastTime) ==
    /\ ~isProvider[c] => e = "NotProvider"
    /\ (isProvider[c] /\ paused) => e = "PausedContract"
    /\ (isProvider[c] /\ ~paused /\ now < lastTime[c] + cooldownSeconds) => e \in CooldownErrors
    /\ (isProvider[c] /\ ~paused /\ now >= lastTime[c] + cooldownSeconds) =>
           e \in DomainErrors \cup {"ok"}
\* the same for an owner-gated entry point, which has no cooldown
OwnerGateOrder(c, e) ==
    /\ c # owner => e = "NotOwner"
    /\ (c = owner /\ paused) => e = "PausedContract"
    /\ (c = owner /\ ~paused) => e = "ok"

\* C14 (amended): every gated entry point evaluates caller-authorized first,
\* then not-paused, then cooldown-satisfied, then its domain preconditions, and
\* reports the error of the first guard that fails: an unauthorized caller gets
\* the authorization error also while the contract is paused.
C14_AuthorizationGuardFirst ==
    /\ \A c \in Addresses :
          /\ OwnerGateOrder(c, openNewBatchErr(c))
          /\ OwnerGateOrder(c, closeCurrentBatchErr(c))
          /\ \A i \in IdHandles, d \in ContentHandles :
                ProviderGateOrder(c, submitDocumentErr(c, i, d), lastSubmissionTime)
          /\ \A b \in 0..(MaxBatches + 1), k \in KeywordHandles :
                ProviderGateOrder(c, searchKeywordInBatchErr(c, b, k), lastDecryptionRequestTime)
    /\ (lastCall.op \in {"submitDocument", "searchKeywordInBatch"}
        /\ ~isProvider[lastCall.caller]) => lastCall.err = "NotProvider"
    /\ (lastCall.op \in {"openNewBatch", "closeCurrentBatch"}
        /\ lastCall.caller # owner) => lastCall.err = "NotOwner"

\* an actor outside the provider set called while the contract was paused and
\* got the authorization error
C14_Witness ==
    /\ IsCall("submitDocument") /\ paused /\ ~isProvider[lastCall.caller]
    /\ lastCall.err = "NotProvider"

\* C15: while the contract is paused every call of submitDocument,
\* searchKeywordInBatch, openNewBatch and closeCurrentBatch is rejected and
\* leaves batches, documents, decryption contexts and cooldown timestamps as
\* they were.
C15_PausedBlocksLedger ==
    [][(paused /\ lastCall'.op \in GatedOps)
       => (/\ lastCall'.err # "ok"
           /\ UNCHANGED <<currentBatchId, batches, batchDocuments, decryptionContexts,
                          lastSubmissionTime, lastDecryptionRequestTime>>)]_vars

\* the owner's openNewBatch was refused because the contract is paused
C15_Witness ==
    /\ IsCall("openNewBatch") /\ paused /\ lastCall.caller = owner
    /\ lastCall.err = "PausedContract"

\* C16: pause by the owner succeeds exactly when the contract is not paused and
\* then sets paused; unpause by the owner succeeds exactly when it is paused and
\* then clears paused; pause when paused and unpause when not paused fail and
\* change nothing.
C16_PauseToggle ==
    [][/\ (lastCall'.op = "pause" /\ lastCall'.caller = owner) =>
            IF paused THEN lastCall'.err # "ok" /\ UNCHANGED <<cvars, ovars>>
            ELSE lastCall'.err = "ok" /\ paused'
       /\ (lastCall'.op = "unpause" /\ lastCall'.caller = owner) =>
            IF ~paused THEN lastCall'.err # "ok" /\ UNCHANGED <<cvars, ovars>>
            ELSE lastCall'.err = "ok" /\ ~paused'
       /\ (lastCall'.op \in {"pause", "unpause"} /\ lastCall'.err = "ok") =>
            UNCHANGED <<owner, isProvider, cooldownSeconds, lastSubmissionTime,
                        lastDecryptionRequestTime, currentBatchId, batches,
                        batchDocuments, decryptionContexts, ovars>>]_vars

\* the owner's pause was refused because the contract is already paused
C16_Witness ==
    /\ IsCall("pause") /\ lastCall.caller = owner /\ paused
    /\ lastCall.err = "PausedContract"

\* the batches that exist, and what holds of the batch table in every state
BatchTableOk ==
    /\ currentBatchId >= 1
    /\ \A i \in BatchIds : i <= currentBatchId => batches[i].id = i
    /\ \A i \in BatchIds : i > currentBatchId => batches[i] = NoBatch

\* C17: currentBatchId is at least 1 and never decreases, a successful
\* openNewBatch (and nothing else) increases it, by exactly 1, batches[i].id = i
\* for every 1 <= i <= currentBatchId, no batch record is deleted, and after
\* construction batch 1 exists and is open.
C17_BatchIdsIncrease ==
    [][/\ BatchTableOk /\ BatchTableOk'
       /\ steps = 0 => (currentBatchId = 1 /\ batches[1] = [id |-> 1, open |-> TRUE])
       /\ currentBatchId' >= currentBatchId
       /\ (lastCall'.op = "openNewBatch" /\ lastCall'.err = "ok") =>
              currentBatchId' = currentBatchId + 1
       /\ currentBatchId' # currentBatchId =>
              (lastCall'.op = "openNewBatch" /\ lastCall'.err = "ok")
       /\ \A i \in BatchIds : i <= currentBatchId => batches'[i].id = batches[i].id]_vars

\* the owner opened a second batch
C17_Witness ==
    /\ IsCall("openNewBatch") /\ ~Failed
    /\ currentBatchId = 2 /\ batches[2].id = 2 /\ batches[1].id = 1

\* C18: a successful openNewBatch creates batch currentBatchId + 1 as open and
\* leaves the open flag and the document list of every earlier batch as they
\* were, so that two batches can be open at once.
C18_OpenNewBatchKeepsEarlier ==
    [][(lastCall'.op = "openNewBatch" /\ lastCall'.err = "ok") =>
          /\ batches'[currentBatchId + 1] = [id |-> currentBatchId + 1, open |-> TRUE]
          /\ \A i \in BatchIds : i <= currentBatchId => batches'[i] = batches[i]
          /\ UNCHANGED batchDocuments]_vars

\* a second batch was opened while the first was open and held a document
C18_Witness ==
    /\ IsCall("openNewBatch") /\ ~Failed
    /\ currentBatchId = 2 /\ batches[1].open /\ batches[2].open
    /\ Len(batchDocuments[1]) > 0

\* some submission would succeed now and add a document to batch b
AcceptsSubmission(b) ==
    ENABLED (\E c \in Addresses, i \in IdHandles, d \in ContentHandles :
                /\ submitDocument(c, i, d)
                /\ lastCall'.err = "ok"
                /\ batchDocuments'[b] # batchDocuments[b])

\* C19 (as written): after openNewBatch while the previous batch is still open,
\* both are open and both accept submissions: whenever a submission to the new
\* batch would succeed, one to the previous batch would succeed as well.
C19_BothOpenBatchesAcceptSubmissions ==
    (/\ IsCall("openNewBatch") /\ ~Failed
     /\ batches[currentBatchId - 1].open
     /\ Len(batchDocuments[currentBatchId - 1]) < MaxDocs
     /\ AcceptsSubmission(currentBatchId))
    => (/\ batches[currentBatchId].open
        /\ AcceptsSubmission(currentBatchId - 1))

\* C19 (amended): after openNewBatch while the previous batch is still open,
\* both are open, but only the new, current batch accepts submissions: every
\* successful submitDocument appends its document to the current batch and
\* leaves the list of every other batch, open or not, as it was.
C19_OnlyCurrentBatchAcceptsSubmissions ==
    [][/\ (lastCall'.op = "openNewBatch" /\ lastCall'.err = "ok"
              /\ batches[currentBatchId].open)
          => (batches'[currentBatchId].open /\ batches'[currentBatchId'].open)
       /\ (lastCall'.op = "submitDocument" /\ lastCall'.err = "ok")
          => (/\ batches[currentBatchId].open
              /\ batchDocuments'[currentBatchId] =
                     Append(batchDocuments[currentBatchId],
                            [encryptedId |-> lastCall'.args[1],
                             encryptedContent |-> lastCall'.args[2]])
              /\ \A b \in BatchIds :
                     b # currentBatchId => batchDocuments'[b] = batchDocuments[b])]_vars

\* a document was submitted while batches 1 and 2 were both open
C19_Witness ==
    /\ IsCall("submitDocument") /\ ~Failed
    /\ currentBatchId = 2 /\ batches[1].open /\ batches[2].open
    /\ Len(batchDocuments[2]) > 0 /\ Len(batchDocuments[1]) = 0

\* some call by the owner would succeed now and leave batch b closed
OwnerCanClose(b) ==
    ENABLED (/\ Next
             /\ lastCall'.op \in OwnerOps /\ lastCall'.caller = owner
             /\ lastCall'.err = "ok"
             /\ ~batches'[b].open)

\* C20 (as written): for every batch whose open flag is true, current or not,
\* there is an Administrator operation that sets its open flag to false.
C20_AnyOpenBatchCanBeClosed ==
    \A b \in BatchIds :
        (b <= currentBatchId /\ batches[b].open /\ ~paused /\ steps < MaxSteps)
        => OwnerCanClose(b)

\* C20 (amended): the Administrator can close the current batch only: a batch's
\* open flag goes from true to false only in a successful closeCurrentBatch by
\* the owner while that batch is the current one, so a batch superseded while
\* open stays open.
C20_OnlyCurrentBatchIsClosed ==
    [][/\ \A b \in BatchIds :
              (batches[b].open /\ ~batches'[b].open)
              => (/\ b = currentBatchId
                  /\ lastCall'.op = "closeCurrentBatch" /\ lastCall'.err = "ok"
                  /\ lastCall'.caller = owner)
       /\ \A b \in BatchIds :
              (b < currentBatchId /\ batches[b].open) => batches'[b].open
       /\ (lastCall'.op = "closeCurrentBatch" /\ lastCall'.err = "ok")
              => ~batches'[currentBatchId].open]_vars

\* the owner closed batch 2 while batch 1, superseded, stayed open
C20_Witness ==
    /\ IsCall("closeCurrentBatch") /\ ~Failed
    /\ lastEvents = <<Event("BatchClosed", <<2>>)>>
    /\ currentBatchId = 2 /\ batches[1].open /\ ~batches[2].open

\* C21: closeCurrentBatch by the owner while not paused never fails; if the
\* current batch is open it sets only that batch's open flag to false and emits
\* BatchClosed, and if the batch is already closed it succeeds, changes nothing
\* and emits nothing.
C21_CloseIsIdempotent ==
    [][(lastCall'.op = "closeCurrentBatch" /\ lastCall'.caller = owner /\ ~paused) =>
          /\ lastCall'.err = "ok"
          /\ UNCHANGED <<owner, isProvider, paused, cooldownSeconds, lastSubmissionTime,
                         lastDecryptionRequestTime, currentBatchId, batchDocuments,
                         decryptionContexts, ovars>>
          /\ IF batches[currentBatchId].open
             THEN /\ batches' = [batches EXCEPT ![currentBatchId].open = FALSE]
                  /\ lastEvents' = <<Event("BatchClosed", <<currentBatchId>>)>>
             ELSE /\ batches' = batches
                  /\ lastEvents' = <<>>]_vars

\* the owner closed the current batch a second time
C21_Witness ==
    /\ IsCall("closeCurrentBatch") /\ ~Failed /\ lastCall.caller = owner
    /\ lastEvents = <<>> /\ ~batches[currentBatchId].open /\ ~paused

\* the batch ids a search may be asked for
SearchBatchIds == 0..(MaxBatches + 1)
\* batchId does not name an existing open batch
NotSearchable(batchId) ==
    batchId = 0 \/ batchId > currentBatchId \/ ~batches[batchId].open

\* C22: searchKeywordInBatch fails, registering no request and stamping no
\* cooldown time, whenever batchId = 0, batchId > currentBatchId or the target
\* batch is not open; a provider who passes the pause and cooldown guards with an
\* initialized keyword succeeds on every open, non-empty batch
\* 1 <= batchId <= currentBatchId, the current one or an earlier one.
C22_SearchBatchIdValidity ==
    [][/\ lastCall'.op = "searchKeywordInBatch" =>
              \A c \in Addresses, b \in SearchBatchIds, k \in KeywordHandles :
                  /\ NotSearchable(b) => searchKeywordInBatchErr(c, b, k) # "ok"
                  /\ (/\ isProvider[c] /\ ~paused /\ checkDecryptionCooldown(c) = "ok"
                      /\ isInitialized(k) /\ ~NotSearchable(b)
                      /\ Len(batchDocuments[b]) > 0)
                     => searchKeywordInBatchErr(c, b, k) = "ok"
       /\ (lastCall'.op = "searchKeywordInBatch" /\ lastCall'.err # "ok")
              => UNCHANGED <<cvars, ovars>>
       /\ (lastCall'.op = "searchKeywordInBatch" /\ lastCall'.err = "ok")
              => (/\ ~NotSearchable(lastCall'.args[1])
                  /\ Len(batchDocuments[lastCall'.args[1]]) > 0
                  /\ requestCounter' = requestCounter + 1)]_vars

\* a search of batch 1 succeeded while batch 2 was the current batch
C22_Witness ==
    /\ IsCall("searchKeywordInBatch") /\ ~Failed
    /\ lastCall.args[1] = 1 /\ currentBatchId = 2
    /\ decryptionContexts[0].batchId = 1

\* C23: every successful searchKeywordInBatch stores, under the requestId the
\* oracle returned, a context with the requested batchId, processed = FALSE and
\* stateHash = the digest of (the count ciphertext handed to requestDecryption
\* in that call, the contract's own address); the stateHash and batchId of a
\* registered request are never modified afterwards.
C23_ContextBoundToRequest ==
    [][/\ (lastCall'.op = "searchKeywordInBatch" /\ lastCall'.err = "ok") =>
              LET requestId == requestCounter
                  batchId == lastCall'.args[1]
                  cts == oracleRequests'[requestId].cts IN
              /\ ~Issued(requestId) /\ requestCounter' = requestId + 1
              /\ cts = <<encryptedCount(batchDocuments[batchId], lastCall'.args[2])>>
              /\ decryptionContexts'[requestId] =
                     [batchId |-> batchId, stateHash |-> <<cts, ThisAddress>>,
                      processed |-> FALSE]
       /\ \A r \in RequestIds : Issued(r) =>
              /\ decryptionContexts'[r].stateHash = decryptionContexts[r].stateHash
              /\ decryptionContexts'[r].batchId = decryptionContexts[r].batchId
              /\ oracleRequests'[r] = oracleRequests[r]]_vars

\* a second request was registered while the first one kept its context
C23_Witness ==
    /\ IsCall("searchKeywordInBatch") /\ ~Failed /\ requestCounter = 2
    /\ \A r \in {0, 1} :
           decryptionContexts[r].stateHash = <<oracleRequests[r].cts, ThisAddress>>
    /\ decryptionContexts[0].batchId = 1 /\ decryptionContexts[1].batchId = 1

\* C24: outstanding requests are independent: a myCallback for request A,
\* successful or not, never changes the context of another request B, and while
\* two requests are registered the oracle's valid callback for either of them,
\* in whichever order they arrive, finalizes it.
C24_RequestsIndependent ==
    [][lastCall'.op = "myCallback" =>
          LET A == lastCall'.args[1] IN
          /\ \A B \in RequestIds \ {A} : decryptionContexts'[B] = decryptionContexts[B]
          /\ (/\ Issued(0) /\ Issued(1) /\ A \in {0, 1}
              /\ lastCall'.args[2] /\ ~decryptionContexts[A].processed)
             => (lastCall'.err = "ok" /\ decryptionContexts'[A].processed)]_vars

\* C25: a registered request keeps processed = FALSE until a successful
\* myCallback for that same requestId: no other step (the passing of time, pause,
\* closing a batch, removing a provider, another request or its callback, a
\* failed callback) changes its processed flag.
C25_UnprocessedStaysUnprocessed ==
    [][\A r \in RequestIds :
          (Issued(r) /\ decryptionContexts'[r].processed # decryptionContexts[r].processed)
          => (/\ lastCall'.op = "myCallback" /\ lastCall'.err = "ok"
              /\ lastCall'.args[1] = r)]_vars

\* with a request registered and unprocessed, time passed and the owner's next
\* call was accepted
C25_Witness ==
    /\ Issued(0) /\ ~decryptionContexts[0].processed
    /\ decryptionContexts[0].stateHash # ZeroHash
    /\ now > StartTime
    /\ lastCall.op \in {"pause", "closeCurrentBatch", "removeProvider"} /\ ~Failed

\* C26: each batch's document list is append-only: across every step the old
\* list is a prefix of the new one, and the list, empty after construction,
\* grows by exactly one in a successful submitDocument that targets the batch
\* and by nothing otherwise, so that its length is the number of such calls.
C26_ListsAppendOnly ==
    [][\A b \in BatchIds :
          /\ steps = 0 => batchDocuments[b] = <<>>
          /\ IsPrefix(batchDocuments[b], batchDocuments'[b])
          /\ Len(batchDocuments'[b]) = Len(batchDocuments[b]) +
                 (IF /\ lastCall'.op = "submitDocument" /\ lastCall'.err = "ok"
                     /\ b = currentBatchId
                  THEN 1 ELSE 0)]_vars

\* a second submitter added a different document to the same batch
C26_Witness ==
    /\ IsCall("submitDocument") /\ ~Failed
    /\ Len(batchDocuments[currentBatchId]) = 2
    /\ batchDocuments[currentBatchId][1] # batchDocuments[currentBatchId][2]

\* C27: cooldownSeconds > 0 in every reachable state: it is positive after
\* construction, setCooldownSeconds(0) fails for every caller and changes
\* nothing, and setCooldownSeconds(n) with n > 0 by the owner succeeds and sets
\* it to n.
C27_CooldownPositive ==
    [][/\ cooldownSeconds > 0 /\ cooldownSeconds' > 0
       /\ steps = 0 => cooldownSeconds = DefaultCooldown
       /\ lastCall'.op = "setCooldownSeconds" =>
              /\ \A c \in Addresses : setCooldownSecondsErr(c, 0) # "ok"
              /\ \A n \in CooldownInputs : n > 0 => setCooldownSecondsErr(owner, n) = "ok"
              /\ lastCall'.err # "ok" => UNCHANGED <<cvars, ovars>>
              /\ lastCall'.err = "ok" =>
                     (/\ lastCall'.caller = owner /\ lastCall'.args[1] > 0
                      /\ cooldownSeconds' = lastCall'.args[1])
       /\ cooldownSeconds' # cooldownSeconds =>
              (lastCall'.op = "setCooldownSeconds" /\ lastCall'.err = "ok")]_vars

\* the owner set the cooldown to 1 and then asked for 0, which was refused
C27_Witness ==
    /\ IsCall("setCooldownSeconds") /\ lastCall.caller = owner
    /\ lastCall.err = "Cooldown must be positive"
    /\ cooldownSeconds = 1

\* the addresses that pass the onlyOwner guard
Owners == {c \in Addresses \cup {ZeroAddress} : onlyOwner(c)}

\* C28: there is exactly one owner in every state and it is never the zero
\* address: transferOwnership to the zero address fails and changes nothing, and
\* a successful transferOwnership(new) makes new the only address that passes
\* onlyOwner, so that the previous owner, when it is another address, has lost
\* the owner's rights in the very next state.
C28_SingleNonNullOwner ==
    [][/\ Cardinality(Owners) = 1 /\ Cardinality(Owners') = 1
       /\ owner # ZeroAddress /\ owner' # ZeroAddress
       /\ steps = 0 => owner = Deployer
       /\ lastCall'.op = "transferOwnership" =>
              /\ \A c \in Addresses : transferOwnershipErr(c, ZeroAddress) # "ok"
              /\ lastCall'.err # "ok" => UNCHANGED <<cvars, ovars>>
              /\ lastCall'.err = "ok" =>
                     (/\ lastCall'.caller = owner
                      /\ owner' = lastCall'.args[1]
                      /\ Owners' = {lastCall'.args[1]}
                      /\ owner # owner' => owner \notin Owners')
       /\ owner' # owner =>
              (lastCall'.op = "transferOwnership" /\ lastCall'.err = "ok")]_vars

\* after the deployer handed ownership to alice, alice's transfer to the zero
\* address was refused
C28_Witness ==
    /\ IsCall("transferOwnership") /\ lastCall.err = "New owner is zero address"
    /\ lastCall.caller = owner /\ owner = "alice" /\ owner # Deployer

\* the six operations of access control and configuration
AdminOps == {"transferOwnership", "addProvider", "removeProvider", "pause", "unpause",
             "setCooldownSeconds"}

\* C29 (as written): every successful transferOwnership, addProvider,
\* removeProvider, pause, unpause and setCooldownSeconds emits a notification,
\* addProvider of a provider and removeProvider of a non-provider included.
C29_EverySuccessfulAdminCallNotifies ==
    (lastCall.op \in AdminOps /\ ~Failed) => lastEvents # <<>>

\* C29 (amended): a successful transferOwnership, pause, unpause or
\* setCooldownSeconds always emits its notification with the values before and
\* after; a successful addProvider or removeProvider emits its notification
\* exactly when it changes the provider flag, and nothing when the actor already
\* is (or already is not) a provider.
C29_NotifiesOnChange ==
    [][(lastCall'.op \in AdminOps /\ lastCall'.err = "ok") =>
          LET op == lastCall'.op
              a == lastCall'.args IN
          lastEvents' =
              CASE op = "transferOwnership" -> <<Event("OwnershipTransferred", <<owner, a[1]>>)>>
                [] op = "addProvider" ->
                       IF isProvider[a[1]] THEN <<>> ELSE <<Event("ProviderAdded", <<a[1]>>)>>
                [] op = "removeProvider" ->
                       IF isProvider[a[1]] THEN <<Event("ProviderRemoved", <<a[1]>>)>> ELSE <<>>
                [] op = "pause" -> <<Event("Paused", <<lastCall'.caller>>)>>
                [] op = "unpause" -> <<Event("Unpaused", <<lastCall'.caller>>)>>
                [] op = "setCooldownSeconds" ->
                       <<Event("CooldownSecondsChanged", <<cooldownSeconds, a[1]>>)>>]_vars

\* the owner added an actor that already was a provider: success, no event
C29_Witness ==
    /\ IsCall("addProvider") /\ ~Failed /\ lastCall.caller = owner
    /\ lastEvents = <<>> /\ isProvider[lastCall.args[1]]

\* C30: cooldowns are kept per actor and per category: a successful
\* submitDocument by a writes lastSubmissionTime[a] only and a successful
\* searchKeywordInBatch by a writes lastDecryptionRequestTime[a] only (nothing
\* else writes either table), so the call changes no other actor's cooldown gate
\* and it leaves the caller's gate of the other category as it was.
C30_CooldownsPerActorAndCategory ==
    [][LET a == lastCall'.caller
           submitted == lastCall'.op = "submitDocument" /\ lastCall'.err = "ok"
           searched == lastCall'.op = "searchKeywordInBatch" /\ lastCall'.err = "ok" IN
       /\ submitted =>
              /\ lastSubmissionTime' = [lastSubmissionTime EXCEPT ![a] = now]
              /\ lastDecryptionRequestTime' = lastDecryptionRequestTime
              /\ \A c \in Addresses : checkDecryptionCooldown(c)' = checkDecryptionCooldown(c)
              /\ \A c \in Addresses \ {a} :
                     checkSubmissionCooldown(c)' = checkSubmissionCooldown(c)
       /\ searched =>
              /\ lastDecryptionRequestTime' = [lastDecryptionRequestTime EXCEPT ![a] = now]
              /\ lastSubmissionTime' = lastSubmissionTime
              /\ \A c \in Addresses : checkSubmissionCooldown(c)' = checkSubmissionCooldown(c)
              /\ \A c \in Addresses \ {a} :
                     checkDecryptionCooldown(c)' = checkDecryptionCooldown(c)
       /\ ~submitted => lastSubmissionTime' = lastSubmissionTime
       /\ ~searched => lastDecryptionRequestTime' = lastDecryptionRequestTime]_vars

\* alice searched right after the deployer's submission: each table holds the
\* time of its own actor and category only
C30_Witness ==
    /\ IsCall("searchKeywordInBatch") /\ ~Failed /\ lastCall.caller = "alice"
    /\ lastDecryptionRequestTime = [deployer |-> 0, alice |-> now]
    /\ lastSubmissionTime = [deployer |-> now, alice |-> 0]
    /\ checkSubmissionCooldown("alice") = "ok"
    /\ checkDecryptionCooldown("deployer") = "ok"

\* the batches that openNewBatch has superseded
Superseded == {b \in BatchIds : b < currentBatchId}

\* C31: documents are appended only to the batch that is current at the time of
\* the call: the list of every other batch is the same after each step, a
\* superseded batch stays superseded, and so a batch superseded while empty stays
\* empty and every search of it fails.
C31_SupersededBatchIsFrozen ==
    [][/\ \A b \in BatchIds : b # currentBatchId => batchDocuments'[b] = batchDocuments[b]
       /\ Superseded \subseteq Superseded'
       /\ \A b \in Superseded :
              batchDocuments[b] = <<>> =>
                  /\ batchDocuments'[b] = <<>>
                  /\ ~(/\ lastCall'.op = "searchKeywordInBatch" /\ lastCall'.err = "ok"
                       /\ lastCall'.args[1] = b)
                  /\ lastCall'.op = "searchKeywordInBatch" =>
                         \A c \in Addresses, k \in KeywordHandles :
                             searchKeywordInBatchErr(c, b, k) # "ok"]_vars

\* batch 1 was superseded while empty and open; with a document in batch 2, the
\* search of batch 1 was refused for want of documents
C31_Witness ==
    /\ IsCall("searchKeywordInBatch") /\ lastCall.err = "No documents in batch"
    /\ currentBatchId = 2 /\ batches[1].open /\ batchDocuments[1] = <<>>
    /\ Len(batchDocuments[2]) > 0

\* C32: the open flag of an existing batch is monotone: once FALSE it is FALSE
\* after every step; while the current batch is closed every submitDocument
\* fails, and the current batch is open again only after a successful
\* openNewBatch, which opens a new batch and not the closed one.
C32_OpenFlagMonotone ==
    [][/\ \A i \in BatchIds :
              (i <= currentBatchId /\ ~batches[i].open) => ~batches'[i].open
       /\ ~batches[currentBatchId].open =>
              /\ lastCall'.op = "submitDocument" =>
                     /\ lastCall'.err # "ok"
                     /\ \A c \in Addresses, i \in IdHandles, d \in ContentHandles :
                            submitDocumentErr(c, i, d) # "ok"
              /\ batches'[currentBatchId'].open =>
                     (/\ lastCall'.op = "openNewBatch" /\ lastCall'.err = "ok"
                      /\ currentBatchId' = currentBatchId + 1)]_vars

\* batch 1 was closed, batch 2 opened, and a submission went through again while
\* batch 1 stayed closed
C32_Witness ==
    /\ IsCall("submitDocument") /\ ~Failed
    /\ currentBatchId = 2 /\ ~batches[1].open /\ batches[2].open
    /\ batchDocuments[1] = <<>> /\ Len(batchDocuments[2]) = 1

\* the provider set
Providers == {a \in Addresses : isProvider[a]}

\* C33: the owner and the provider set are independent state: after construction
\* the deployer is the owner and the only provider, a successful
\* transferOwnership writes owner and nothing else (the previous owner keeps its
\* provider flag, the new owner is a provider only if it was one), and the
\* provider set changes only in a successful addProvider or removeProvider.
C33_RolesIndependent ==
    [][/\ steps = 0 => (owner = Deployer /\ Providers = {Deployer})
       /\ (lastCall'.op = "transferOwnership" /\ lastCall'.err = "ok") =>
              /\ Providers' = Providers
              /\ UNCHANGED <<isProvider, paused, cooldownSeconds, lastSubmissionTime,
                             lastDecryptionRequestTime, currentBatchId, batches,
                             batchDocuments, decryptionContexts, ovars>>
       /\ Providers' # Providers =>
              (/\ lastCall'.op \in {"addProvider", "removeProvider"}
               /\ lastCall'.err = "ok" /\ lastCall'.caller = owner
               /\ owner' = owner
               /\ Providers' = IF lastCall'.op = "addProvider"
                               THEN Providers \cup {lastCall'.args[1]}
                               ELSE Providers \ {lastCall'.args[1]})]_vars

\* ownership went to alice, who is no provider, while the deployer, no longer
\* the owner, still is one
C33_Witness ==
    /\ IsCall("transferOwnership") /\ ~Failed
    /\ owner = "alice" /\ ~isProvider["alice"] /\ isProvider[Deployer]

\* C34: the cooldown gate uses the value of cooldownSeconds at the time of the
\* gated call: right after a successful setCooldownSeconds(n), a provider's
\* submitDocument / searchKeywordInBatch (the contract not paused) passes the
\* gate exactly when now >= last[caller] + n, whatever the value was when last
\* was recorded; in every state the gate is decided by the current value.
C34_CooldownUsesCurrentValue ==
    [][LET c == lastCall'.caller
           stopped == lastCall'.err \in CooldownErrors IN
       /\ (lastCall'.op = "submitDocument" /\ isProvider[c] /\ ~paused) =>
              /\ stopped <=> now < lastSubmissionTime[c] + cooldownSeconds
              /\ (lastCall.op = "setCooldownSeconds" /\ lastCall.err = "ok") =>
                     (stopped <=> now < lastSubmissionTime[c] + lastCall.args[1])
       /\ (lastCall'.op = "searchKeywordInBatch" /\ isProvider[c] /\ ~paused) =>
              /\ stopped <=> now < lastDecryptionRequestTime[c] + cooldownSeconds
              /\ (lastCall.op = "setCooldownSeconds" /\ lastCall.err = "ok") =>
                     (stopped <=> now < lastDecryptionRequestTime[c] + lastCall.args[1])]_vars

\* lowering the cooldown unblocked the deployer early: a second submission one
\* second after the first, which the cooldown of construction would have stopped
C34_Witness ==
    /\ IsCall("submitDocument") /\ ~Failed /\ lastCall.caller = Deployer
    /\ cooldownSeconds = 1 /\ now = StartTime + 1
    /\ lastSubmissionTime = [deployer |-> now, alice |-> 0]
    /\ Len(batchDocuments[1]) = 2

\* the document ids in the stored document_keys list
StoredKeys == {parseKeys(getData(KeysKey))[i] : i \in 1..Len(parseKeys(getData(KeysKey)))}

\* C35: when the uploadDocument of two sessions have both completed
\* successfully, however their setData / getData steps were interleaved, the
\* stored document_keys list holds both new document ids (so that loadDocuments
\* reaches both document records).
C35_IndexHoldsBothUploads ==
    (\A s \in Sessions : status[s] = "success") =>
        \A s \in Sessions :
            /\ Len(getData(DocKey(docId[s]))) > 0
            /\ docId[s] \in StoredKeys

====
